---- MODULE Spec2Model ----
(***************************************************************************)
(* Model of the time clock analysis engine of src/main.py                  *)
(* (class TimeClockAnalyzer) and of the two drivers that run it            *)
(* (main in src/main.py, main in src/app.py).                              *)
(*                                                                         *)
(* Representation.                                                         *)
(*  - A date is the number of days since Monday 2024-01-01, so that        *)
(*    date.weekday() is date % 7 (0 = Monday).  MonthDay gives the         *)
(*    month and day of the real calendar, which is all that                *)
(*    strftime('%m/%d') keeps of a date.                                   *)
(*  - A raw date cell of the CSV is [d, form]: the day it denotes and the  *)
(*    way it is written ("mm/dd/yy", "m/d/yy", or "bad" for a cell that    *)
(*    strptime rejects).  Two raw cells are the same string iff both       *)
(*    fields agree.                                                        *)
(*  - A time token is a sequence of one-character strings.                 *)
(*  - Python's None is the empty tuple and a present value x is <<x>>.     *)
(*  - An employee is a natural number: the rank of the employee's name in  *)
(*    the order sorted() gives.                                            *)
(***************************************************************************)
EXTENDS Integers, Sequences, FiniteSets, TLC

VARIABLES
    pc,                   \* the driver's position
    data,                 \* self.data: the rows of the CSV
    processed_data,       \* self.processed_data
    two_week_periods,     \* self.two_week_periods
    employees,            \* the local list `employees` of the analysis loop
    emp_i, per_i,         \* position of the two nested for loops
    analysis_results,     \* self.analysis_results
    punch_data,           \* the three tables generate_detailed_punch_heatmap builds
    color_data,
    total_hours_data,
    systematic_offenders, \* generate_report: the sorted offender list
    surfaced,             \* generate_report: the offenders written to the summary
    time_token,           \* time_to_minutes on its own: the argument time_str
    returned,             \* time_to_minutes on its own: the value returned
    runs,                 \* the number of analyses started on the analyzer object
    pending               \* the (employee, period) computations still to execute

vars == <<pc, data, processed_data, two_week_periods, employees, emp_i, per_i,
          analysis_results, punch_data, color_data, total_hours_data,
          systematic_offenders, surfaced, time_token, returned, runs, pending>>

None == <<>>
Some(x) == <<x>>

(***************************************************************************)
(* Schedule parameters, __init__.                                          *)
(***************************************************************************)
EXPECTED_MORNING_ARRIVAL == 8 * 60
EXPECTED_LUNCH_DEPARTURE == 12 * 60
EXPECTED_LUNCH_RETURN == 12 * 60 + 30
EXPECTED_END_TIME_1 == 16 * 60
EXPECTED_END_TIME_2 == 16 * 60 + 30
BUFFER_MINUTES == 7

(***************************************************************************)
(* Generic helpers for sequences and dictionaries.                         *)
(***************************************************************************)
Abs(x) == IF x < 0 THEN -x ELSE x
Min2(a, b) == IF a <= b THEN a ELSE b

RECURSIVE SortedSeq(_)
SortedSeq(S) ==
    IF S = {} THEN <<>>
    ELSE LET m == CHOOSE x \in S : \A y \in S : x <= y
         IN <<m>> \o SortedSeq(S \ {m})

RECURSIVE Flatten(_)
Flatten(ss) == IF ss = <<>> THEN <<>> ELSE Head(ss) \o Flatten(Tail(ss))

Range(s) == {s[i] : i \in 1..Len(s)}

Put(dict, key, value) ==
    [k \in (DOMAIN dict) \cup {key} |-> IF k = key THEN value ELSE dict[k]]

(***************************************************************************)
(* The calendar: strftime('%m/%d') of a date.                              *)
(***************************************************************************)
IsLeap(y) == (y % 4 = 0 /\ y % 100 # 0) \/ y % 400 = 0
YearLen(y) == IF IsLeap(y) THEN 366 ELSE 365
MonthLen(y, m) ==
    IF m = 2 THEN (IF IsLeap(y) THEN 29 ELSE 28)
    ELSE IF m \in {4, 6, 9, 11} THEN 30 ELSE 31

RECURSIVE YearOf(_, _)
YearOf(d, y) == IF d < YearLen(y) THEN <<y, d>> ELSE YearOf(d - YearLen(y), y + 1)

RECURSIVE MonthOf(_, _, _)
MonthOf(doy, y, m) ==
    IF doy < MonthLen(y, m) THEN <<m, doy + 1>> ELSE MonthOf(doy - MonthLen(y, m), y, m + 1)

MonthDay(d) == LET yd == YearOf(d, 2024) IN MonthOf(yd[2], yd[1], 1)

Weekday(d) == d % 7

(***************************************************************************)
(* time_to_minutes.                                                        *)
(***************************************************************************)
Whitespace == {" ", "\t"}

RECURSIVE LStrip(_)
LStrip(s) == IF s # <<>> /\ Head(s) \in Whitespace THEN LStrip(Tail(s)) ELSE s

RECURSIVE RStrip(_)
RStrip(s) ==
    IF s # <<>> /\ s[Len(s)] \in Whitespace THEN RStrip(SubSeq(s, 1, Len(s) - 1)) ELSE s

Strip(s) == RStrip(LStrip(s))

\* str.lower(): of the letters only a and p decide anything in the caller
Lower(s) ==
    [i \in 1..Len(s) |-> CASE s[i] = "A" -> "a" [] s[i] = "P" -> "p" [] OTHER -> s[i]]

DigitChars == <<"0", "1", "2", "3", "4", "5", "6", "7", "8", "9">>
IsDigit(c) == c \in Range(DigitChars)
DigitVal(c) == (CHOOSE i \in 1..10 : DigitChars[i] = c) - 1

RECURSIVE DigitsValue(_, _)
DigitsValue(b, acc) ==
    IF b = <<>> THEN acc
    ELSE IF Head(b) = "_" THEN DigitsValue(Tail(b), acc)
    ELSE DigitsValue(Tail(b), acc * 10 + DigitVal(Head(b)))

\* the digits of an int() literal: digits, single underscores between them
IntBodyOk(b) ==
    /\ b # <<>>
    /\ \A i \in 1..Len(b) : IsDigit(b[i]) \/ b[i] = "_"
    /\ IsDigit(b[1])
    /\ IsDigit(b[Len(b)])
    /\ \A i \in 1..(Len(b) - 1) : ~(b[i] = "_" /\ b[i + 1] = "_")

\* int(s): None stands for the ValueError
PyInt(s) ==
    LET t == Strip(s)
        signed == t # <<>> /\ t[1] \in {"+", "-"}
        body == IF signed THEN Tail(t) ELSE t
    IN IF ~IntBodyOk(body) THEN None
       ELSE Some(IF signed /\ t[1] = "-" THEN 0 - DigitsValue(body, 0)
                 ELSE DigitsValue(body, 0))

\* time_part.split(':') has exactly two parts iff there is exactly one colon
ColonPositions(s) == {i \in 1..Len(s) : s[i] = ":"}

\* a variant that adds twelve hours to every p token, noon included
time_to_minutes_NoonPlusTwelve(time_str) ==
    LET s == Lower(Strip(time_str))
    IN IF s = <<>> \/ s[Len(s)] \notin {"a", "p"} THEN None
       ELSE LET am_pm == s[Len(s)]
                time_part == SubSeq(s, 1, Len(s) - 1)
                cols == ColonPositions(time_part)
            IN IF Cardinality(cols) # 1 THEN None
               ELSE LET c == CHOOSE i \in cols : TRUE
                        h == PyInt(SubSeq(time_part, 1, c - 1))
                        m == PyInt(SubSeq(time_part, c + 1, Len(time_part)))
                    IN IF h = None \/ m = None THEN None
                       ELSE LET hours == IF am_pm = "p" THEN h[1] + 12
                                         ELSE IF am_pm = "a" /\ h[1] = 12 THEN 0
                                         ELSE h[1]
                            IN Some(hours * 60 + m[1])
time_to_minutes(time_str) ==
    LET s == Lower(Strip(time_str))
    IN IF s = <<>> \/ s[Len(s)] \notin {"a", "p"} THEN None
       ELSE LET am_pm == s[Len(s)]
                time_part == SubSeq(s, 1, Len(s) - 1)
                cols == ColonPositions(time_part)
            IN IF Cardinality(cols) # 1 THEN None
               ELSE LET c == CHOOSE i \in cols : TRUE
                        h == PyInt(SubSeq(time_part, 1, c - 1))
                        m == PyInt(SubSeq(time_part, c + 1, Len(time_part)))
                    IN IF h = None \/ m = None THEN None
                       ELSE LET hours == IF am_pm = "p" /\ h[1] # 12 THEN h[1] + 12
                                         ELSE IF am_pm = "a" /\ h[1] = 12 THEN 0
                                         ELSE h[1]
                            IN Some(hours * 60 + m[1])

(***************************************************************************)
(* process_data.                                                           *)
(***************************************************************************)
\* datetime.strptime(row['InDate'], '%m/%d/%y').date(): None stands for the ValueError
ParseDate(cell) == IF cell.form = "bad" THEN None ELSE Some(cell.d)

\* a variant that keeps a row whose time fails, with 0 for the missing value
ProcessRow_DefaultsBadTime(processed_records, row) ==
    LET date_obj == ParseDate(row.InDate)
        in_min == time_to_minutes(row.InTime)
        out_min == time_to_minutes(row.OutTime)
    IN IF date_obj = None THEN processed_records
       ELSE Append(processed_records,
                   [employee |-> row.DisplayAs,
                    date |-> date_obj[1],
                    in_time_str |-> row.InTime,
                    out_time_str |-> row.OutTime,
                    in_time_minutes |-> IF in_min = None THEN 0 ELSE in_min[1],
                    out_time_minutes |-> IF out_min = None THEN 0 ELSE out_min[1],
                    in_date |-> row.InDate,
                    out_date |-> row.OutDate])
\* one iteration of the loop over the rows: the records after this row
ProcessRow(processed_records, row) ==
    LET date_obj == ParseDate(row.InDate)
        in_min == time_to_minutes(row.InTime)
        out_min == time_to_minutes(row.OutTime)
    IN IF date_obj = None THEN processed_records
       ELSE IF in_min # None /\ out_min # None
            THEN Append(processed_records,
                        [employee |-> row.DisplayAs,
                         date |-> date_obj[1],
                         in_time_str |-> row.InTime,
                         out_time_str |-> row.OutTime,
                         in_time_minutes |-> in_min[1],
                         out_time_minutes |-> out_min[1],
                         in_date |-> row.InDate,
                         out_date |-> row.OutDate])
            ELSE processed_records

RECURSIVE ProcessRows(_, _)
ProcessRows(processed_records, rows) ==
    IF rows = <<>> THEN processed_records
    ELSE ProcessRows(ProcessRow(processed_records, Head(rows)), Tail(rows))

(***************************************************************************)
(* create_two_week_periods.                                                *)
(***************************************************************************)
MinDate(records) == CHOOSE d \in {r.date : r \in Range(records)} :
                        \A r \in Range(records) : d <= r.date
MaxDate(records) == CHOOSE d \in {r.date : r \in Range(records)} :
                        \A r \in Range(records) : d >= r.date

\* a variant that walks forward to the next Monday
RECURSIVE MoveToMonday_Forward(_)
MoveToMonday_Forward(current_date) ==
    IF Weekday(current_date) # 0 THEN MoveToMonday_Forward(current_date + 1)
    ELSE current_date

RECURSIVE MoveToMonday(_)
MoveToMonday(current_date) ==
    IF Weekday(current_date) # 0 THEN MoveToMonday(current_date - 1) ELSE current_date

PeriodLabel(start, end) == <<MonthDay(start), MonthDay(end)>>

\* a variant that stops when the cursor reaches the maximum date
EmitPeriods_StopsAtMax(current_date, max_date) ==
    LET n == IF current_date < max_date
             THEN (max_date - 1 - current_date) \div 14 + 1 ELSE 0
    IN [i \in 1..n |->
           LET start == current_date + 14 * (i - 1)
           IN [start |-> start,
               end |-> start + 13,
               label |-> PeriodLabel(start, start + 13)]]

\* the loop "while current_date <= max_date": one period per 14 days from the
\* first Monday, the i-th starting 14 * (i - 1) days after it
EmitPeriods(current_date, max_date) ==
    LET n == IF current_date <= max_date
             THEN (max_date - current_date) \div 14 + 1 ELSE 0
    IN [i \in 1..n |->
           LET start == current_date + 14 * (i - 1)
           IN [start |-> start,
               end |-> start + 13,
               label |-> PeriodLabel(start, start + 13)]]

CreatePeriods(records) == EmitPeriods(MoveToMonday(MinDate(records)), MaxDate(records))

(***************************************************************************)
(* analyze_employee_period.                                                *)
(***************************************************************************)
\* PeriodData without the employee filter: every employee's records of the period
PeriodData_AnyEmployee(records, employee, period) ==
    SelectSeq(records, LAMBDA r : /\ r.date >= period.start
                                  /\ r.date <= period.end)
PeriodData(records, employee, period) ==
    SelectSeq(records, LAMBDA r : /\ r.employee = employee
                                  /\ r.date >= period.start
                                  /\ r.date <= period.end)

\* ExpectedDays with the weekday test off by one: Saturday counts as a work day
ExpectedDays_WithSaturday(period) ==
    SelectSeq([i \in 1..(period.end - period.start + 1) |-> period.start + i - 1],
              LAMBDA d : Weekday(d) < 6)

\* the Monday-to-Friday dates of the period, ascending
ExpectedDays(period) ==
    SelectSeq([i \in 1..(period.end - period.start + 1) |-> period.start + i - 1],
              LAMBDA d : Weekday(d) < 5)

\* daily_groups.groups.keys(): the dates of the period's records
WorkedDates(period_data) == {r.date : r \in Range(period_data)}

\* sort_values('in_time_minutes'): records with equal keys keep their order
RECURSIVE InsertByInTime(_, _)
InsertByInTime(sorted, r) ==
    IF sorted = <<>> THEN <<r>>
    ELSE IF Head(sorted).in_time_minutes <= r.in_time_minutes
         THEN <<Head(sorted)>> \o InsertByInTime(Tail(sorted), r)
         ELSE <<r>> \o sorted

RECURSIVE SortByInTime(_, _)
SortByInTime(sorted, rest) ==
    IF rest = <<>> THEN sorted
    ELSE SortByInTime(InsertByInTime(sorted, Head(rest)), Tail(rest))

DayRecords(some_data, date) ==
    SortByInTime(<<>>, SelectSeq(some_data, LAMBDA r : r.date = date))

MissedDayAnomalies(expected_days, worked_dates) ==
    LET missed == SelectSeq(expected_days, LAMBDA d : d \notin worked_dates)
    IN [i \in 1..Len(missed) |->
           [type |-> "missed_day", date |-> missed[i], severity |-> "high"]]

\* a variant that reports a day's mismatching pairs once
DateMismatchAnomalies_OncePerDay(date, day_records) ==
    LET bad == SelectSeq(day_records, LAMBDA r : r.in_date # r.out_date)
    IN IF Len(bad) = 0 THEN <<>>
       ELSE <<[type |-> "date_mismatch", date |-> date, severity |-> "medium"]>>
DateMismatchAnomalies(date, day_records) ==
    LET bad == SelectSeq(day_records, LAMBDA r : r.in_date # r.out_date)
    IN [i \in 1..Len(bad) |->
           [type |-> "date_mismatch", date |-> date, severity |-> "medium"]]

\* IsLateArrival with the buffer's last minute counted as late
IsLateArrival_Inclusive(in_time) == in_time >= EXPECTED_MORNING_ARRIVAL + BUFFER_MINUTES

IsLateArrival(in_time) == in_time > EXPECTED_MORNING_ARRIVAL + BUFFER_MINUTES
\* a variant that flags only a late lunch departure
IsIrregularLunchDeparture_LateOnly(out_time) ==
    out_time - EXPECTED_LUNCH_DEPARTURE > BUFFER_MINUTES
IsIrregularLunchDeparture(out_time) ==
    Abs(out_time - EXPECTED_LUNCH_DEPARTURE) > BUFFER_MINUTES
IsLateLunchReturn(in_time) == in_time > EXPECTED_LUNCH_RETURN + BUFFER_MINUTES
EndTimeValid(end_time) ==
    \/ Abs(end_time - EXPECTED_END_TIME_1) <= BUFFER_MINUTES
    \/ Abs(end_time - EXPECTED_END_TIME_2) <= BUFFER_MINUTES

\* the checks of a day with exactly two punch pairs
TimingAnomalies(date, morning_record, afternoon_record) ==
    (IF IsLateArrival(morning_record.in_time_minutes)
     THEN <<[type |-> "late_arrival", date |-> date, severity |-> "medium",
             minutes_late |-> morning_record.in_time_minutes - EXPECTED_MORNING_ARRIVAL]>>
     ELSE <<>>)
    \o
    (IF IsIrregularLunchDeparture(morning_record.out_time_minutes)
     THEN <<[type |-> "irregular_lunch_departure", date |-> date, severity |-> "low"]>>
     ELSE <<>>)
    \o
    (IF IsLateLunchReturn(afternoon_record.in_time_minutes)
     THEN <<[type |-> "late_lunch_return", date |-> date, severity |-> "medium",
             minutes_late |-> afternoon_record.in_time_minutes - EXPECTED_LUNCH_RETURN]>>
     ELSE <<>>)
    \o
    (IF ~EndTimeValid(afternoon_record.out_time_minutes)
     THEN <<[type |-> "irregular_end_time", date |-> date, severity |-> "low"]>>
     ELSE <<>>)

\* PatternAnomalies with the timing checks run on every day of two or more pairs
PatternAnomalies_TimingOnExtra(date, day_records) ==
    IF Len(day_records) = 1
    THEN <<[type |-> "incomplete_day", date |-> date, severity |-> "medium"]>>
    ELSE IF Len(day_records) >= 2
    THEN TimingAnomalies(date, day_records[1], day_records[2])
    ELSE <<>>

\* the if / elif chain on len(day_records)
PatternAnomalies(date, day_records) ==
    IF Len(day_records) = 1
    THEN <<[type |-> "incomplete_day", date |-> date, severity |-> "medium"]>>
    ELSE IF Len(day_records) = 2
    THEN TimingAnomalies(date, day_records[1], day_records[2])
    ELSE IF Len(day_records) > 2
    THEN <<[type |-> "extra_punches", date |-> date, severity |-> "low",
            extra_punches |-> Len(day_records) - 2]>>
    ELSE <<>>

\* one iteration of the loop over daily_groups
DayAnomalies(period_data, date) ==
    LET day_records == DayRecords(period_data, date)
    IN DateMismatchAnomalies(date, day_records) \o PatternAnomalies(date, day_records)

\* SeverityWeight with a low anomaly counted 1
SeverityWeight_LowAsOne(severity) ==
    IF severity = "high" THEN 10 ELSE IF severity = "medium" THEN 5 ELSE 1

SeverityWeight(severity) ==
    IF severity = "high" THEN 10 ELSE IF severity = "medium" THEN 5 ELSE 2

RECURSIVE AnomalyScore(_)
AnomalyScore(anomalies) ==
    IF anomalies = <<>> THEN 0
    ELSE SeverityWeight(Head(anomalies).severity) + AnomalyScore(Tail(anomalies))

\* a variant that reports the empty period as ten missed days
EmptyResult_AllMissed(employee, period) ==
    [employee |-> employee, period |-> period.label,
     anomalies |-> [i \in 1..10 |-> [type |-> "missed_day",
                                     date |-> period.start + i - 1 + 2 * ((i - 1) \div 5),
                                     severity |-> "high"]],
     score |-> 100, total_days |-> 10, worked_days |-> 0, missed_days |-> 10]
EmptyResult(employee, period) ==
    [employee |-> employee, period |-> period.label, anomalies |-> <<>>, score |-> 0,
     total_days |-> 0, worked_days |-> 0, missed_days |-> 0]

analyze_employee_period(records, employee, period) ==
    LET period_data == PeriodData(records, employee, period)
    IN IF Len(period_data) = 0 THEN EmptyResult(employee, period)
       ELSE LET expected_days == ExpectedDays(period)
                worked_dates == WorkedDates(period_data)
                worked_days == Cardinality(worked_dates)
                dates == SortedSeq(worked_dates)
                anomalies ==
                    MissedDayAnomalies(expected_days, worked_dates)
                    \o Flatten([i \in 1..Len(dates) |-> DayAnomalies(period_data, dates[i])])
            IN [employee |-> employee,
                period |-> period.label,
                anomalies |-> anomalies,
                score |-> AnomalyScore(anomalies),
                total_days |-> Len(expected_days),
                worked_days |-> worked_days,
                missed_days |-> Len(expected_days) - worked_days]

\* sorted(self.processed_data['employee'].unique())
UniqueEmployees(records) == SortedSeq({r.employee : r \in Range(records)})

(***************************************************************************)
(* generate_detailed_punch_heatmap: the slot classification.               *)
(* A slot's text is a raw time token, '' (the empty tuple) or 'N/A'.       *)
(***************************************************************************)
NA == <<"N", "/", "A">>

\* lines 423-430
MornInColor(morn_in_diff) ==
    IF morn_in_diff <= 5 THEN "#228B22"
    ELSE IF morn_in_diff <= 7 THEN "#DAA520"
    ELSE IF morn_in_diff <= 11 THEN "#FF6600"
    ELSE "#DC143C"

\* lines 434-441
MornOutColor(morn_out_diff) ==
    IF morn_out_diff <= 5 THEN "#228B22"
    ELSE IF morn_out_diff <= 7 THEN "#DAA520"
    ELSE IF morn_out_diff <= 11 THEN "#FF6600"
    ELSE "#DC143C"

\* lines 449-456: the first pair placed in the afternoon columns
FirstAftInColor(aft_in_diff) ==
    IF aft_in_diff <= 5 THEN "#228B22"
    ELSE IF aft_in_diff <= 7 THEN "#DAA520"
    ELSE IF aft_in_diff <= 11 THEN "#FF6600"
    ELSE "#DC143C"

\* lines 464-471
FirstAftOutColor(min_end_diff) ==
    IF min_end_diff <= 5 THEN "#228B22"
    ELSE IF min_end_diff <= 7 THEN "#DAA520"
    ELSE IF min_end_diff <= 11 THEN "#FF6600"
    ELSE "#DC143C"

\* lines 488-495: the second pair
SecondAftInColor(aft_in_diff) ==
    IF aft_in_diff <= 5 THEN "#228B22"
    ELSE IF aft_in_diff <= 7 THEN "#DAA520"
    ELSE IF aft_in_diff <= 11 THEN "#FF6600"
    ELSE "#DC143C"

\* SecondAftOutColor with the orange band ending at 10
SecondAftOutColor_MajorToTen(min_end_diff) ==
    IF min_end_diff <= 5 THEN "#228B22"
    ELSE IF min_end_diff <= 7 THEN "#DAA520"
    ELSE IF min_end_diff <= 10 THEN "#FF6600"
    ELSE "#DC143C"

\* lines 503-510
SecondAftOutColor(min_end_diff) ==
    IF min_end_diff <= 5 THEN "#228B22"
    ELSE IF min_end_diff <= 7 THEN "#DAA520"
    ELSE IF min_end_diff <= 11 THEN "#FF6600"
    ELSE "#DC143C"

MinEndDiff(aft_out_time) ==
    Min2(Abs(aft_out_time - EXPECTED_END_TIME_1), Abs(aft_out_time - EXPECTED_END_TIME_2))

\* PlaceFirstInMorning with the threshold at noon
PlaceFirstInMorning_BeforeNoon(first_punch_time) == first_punch_time < 720
\* the three tests of first_punch_time against 11:00 AM
PlaceFirstInMorning(first_punch_time) == first_punch_time < 660
ColorFirstAsMorning(first_punch_time) == first_punch_time < 660
\* SecondIsAfternoon without the test: the second pair always goes to the afternoon
SecondIsAfternoon_Always(first_punch_time) == TRUE
SecondIsAfternoon(first_punch_time) == first_punch_time < 660

\* FlaggedForMultiplePunches with the flag raised from two pairs on
FlaggedForMultiplePunches_FromTwo(daily_punch_count) == daily_punch_count >= 2
FlaggedForMultiplePunches(daily_punch_count) == daily_punch_count > 2

UniformSlots(v) == [morn_in |-> v, morn_out |-> v, aft_in |-> v, aft_out |-> v]

\* FirstPairPunch with the out-time of a morning pair written to end-of-day
FirstPairPunch_OutToEndOfDay(punch, first_rec) ==
    IF PlaceFirstInMorning(first_rec.in_time_minutes)
    THEN [punch EXCEPT !.morn_in = first_rec.in_time_str,
                       !.aft_out = first_rec.out_time_str]
    ELSE [punch EXCEPT !.aft_in = first_rec.in_time_str,
                       !.aft_out = first_rec.out_time_str]

\* the texts of the first pair
FirstPairPunch(punch, first_rec) ==
    IF PlaceFirstInMorning(first_rec.in_time_minutes)
    THEN [punch EXCEPT !.morn_in = first_rec.in_time_str,
                       !.morn_out = first_rec.out_time_str]
    ELSE [punch EXCEPT !.aft_in = first_rec.in_time_str,
                       !.aft_out = first_rec.out_time_str]

\* the colours of the first pair, on a day that is not flagged
FirstPairColor(color, first_rec) ==
    IF ColorFirstAsMorning(first_rec.in_time_minutes)
    THEN LET banded ==
                 [color EXCEPT
                     !.morn_in = MornInColor(Abs(first_rec.in_time_minutes
                                                 - EXPECTED_MORNING_ARRIVAL)),
                     !.morn_out = MornOutColor(Abs(first_rec.out_time_minutes
                                                   - EXPECTED_LUNCH_DEPARTURE))]
         IN IF first_rec.in_date # first_rec.out_date
            THEN [banded EXCEPT !.morn_out = "#9932CC"]
            ELSE banded
    ELSE LET banded ==
                 [color EXCEPT
                     !.aft_in = FirstAftInColor(Abs(first_rec.in_time_minutes
                                                    - EXPECTED_LUNCH_RETURN)),
                     !.aft_out = FirstAftOutColor(MinEndDiff(first_rec.out_time_minutes))]
         IN IF first_rec.in_date # first_rec.out_date
            THEN [banded EXCEPT !.aft_out = "#9932CC"]
            ELSE banded

\* the texts of the second pair (first pair in the morning columns)
SecondPairPunch(punch, afternoon_rec) ==
    [punch EXCEPT !.aft_in = afternoon_rec.in_time_str,
                  !.aft_out = afternoon_rec.out_time_str]

\* SecondPairColor marking a missed out punch only when the out-time is off target
SecondPairColor_PurpleWhenOffTarget(color, afternoon_rec) ==
    LET banded ==
            [color EXCEPT
                !.aft_in = SecondAftInColor(Abs(afternoon_rec.in_time_minutes
                                                - EXPECTED_LUNCH_RETURN)),
                !.aft_out = SecondAftOutColor(MinEndDiff(afternoon_rec.out_time_minutes))]
    IN IF afternoon_rec.in_date # afternoon_rec.out_date
          /\ MinEndDiff(afternoon_rec.out_time_minutes) > 5
       THEN [banded EXCEPT !.aft_out = "#9932CC"]
       ELSE banded
\* the colours of the second pair, on a day that is not flagged
SecondPairColor(color, afternoon_rec) ==
    LET banded ==
            [color EXCEPT
                !.aft_in = SecondAftInColor(Abs(afternoon_rec.in_time_minutes
                                                - EXPECTED_LUNCH_RETURN)),
                !.aft_out = SecondAftOutColor(MinEndDiff(afternoon_rec.out_time_minutes))]
    IN IF afternoon_rec.in_date # afternoon_rec.out_date
       THEN [banded EXCEPT !.aft_out = "#9932CC"]
       ELSE banded

\* punch_data[employee][day_key] of a date the employee worked
PresentPunch(records) ==
    LET p0 == UniformSlots(<<>>)
        p1 == IF Len(records) >= 1 THEN FirstPairPunch(p0, records[1]) ELSE p0
    IN IF Len(records) >= 2 /\ SecondIsAfternoon(records[1].in_time_minutes)
       THEN SecondPairPunch(p1, records[2])
       ELSE p1

\* color_data[employee][day_key] of a date the employee worked
PresentColor(records) ==
    LET flagged == FlaggedForMultiplePunches(Len(records))
        c0 == UniformSlots(IF flagged THEN "#FFB6C1" ELSE "#F8F8F8")
        c1 == IF Len(records) >= 1 /\ ~flagged THEN FirstPairColor(c0, records[1]) ELSE c0
    IN IF Len(records) >= 2 /\ SecondIsAfternoon(records[1].in_time_minutes) /\ ~flagged
       THEN SecondPairColor(c1, records[2])
       ELSE c1

MinutesWorked(record) ==
    LET minutes_worked == record.out_time_minutes - record.in_time_minutes
    IN IF minutes_worked < 0 THEN minutes_worked + 1440 ELSE minutes_worked

RECURSIVE TotalMinutes(_)
TotalMinutes(records) ==
    IF records = <<>> THEN 0 ELSE MinutesWorked(Head(records)) + TotalMinutes(Tail(records))

\* f"{hours}:{minutes:02d}" as <<hours, minutes>>
HoursMinutes(total_minutes) == <<total_minutes \div 60, total_minutes % 60>>

\* '%m/%d (%a)' of a date
DayKey(date) == <<MonthDay(date), Weekday(date)>>

\* sorted(self.processed_data['date'].unique())
AllDates(records) == SortedSeq({r.date : r \in Range(records)})

EmployeeData(records, employee) == SelectSeq(records, LAMBDA r : r.employee = employee)

\* the body of the loop over all_dates, for one employee and one date
DayEntry(emp_data, date) ==
    IF date \in {r.date : r \in Range(emp_data)}
    THEN LET records == DayRecords(emp_data, date)
         IN [punch |-> PresentPunch(records),
             color |-> PresentColor(records),
             total |-> HoursMinutes(TotalMinutes(records))]
    ELSE [punch |-> UniformSlots(NA),
          color |-> UniformSlots("#D3D3D3"),
          total |-> <<0, 0>>]

\* the loop over all_dates: a later date with the same day_key replaces the entry
RECURSIVE DayTable(_, _, _)
DayTable(table, emp_data, dates) ==
    IF dates = <<>> THEN table
    ELSE DayTable(Put(table, DayKey(Head(dates)), DayEntry(emp_data, Head(dates))),
                  emp_data, Tail(dates))

HeatmapTables(records) ==
    [e \in {r.employee : r \in Range(records)} |->
        DayTable(<<>>, EmployeeData(records, e), AllDates(records))]

(***************************************************************************)
(* generate_report: the systematic offenders.                              *)
(* A mean is kept as <<sum, count>>; two means compare as the quotients    *)
(* do.                                                                     *)
(***************************************************************************)
HighScorePeriods(periods) == Cardinality({l \in DOMAIN periods : periods[l].score >= 20})

\* the sum of the period scores; periods with the same score are added at once
RECURSIVE ScoreSum(_, _)
ScoreSum(periods, labels) ==
    IF labels = {} THEN 0
    ELSE LET l == CHOOSE x \in labels : TRUE
             same == {x \in labels : periods[x].score = periods[l].score}
         IN periods[l].score * Cardinality(same) + ScoreSum(periods, labels \ same)

\* the sum of the anomaly counts; periods with the same count are added at once
RECURSIVE AnomalyTotal(_, _)
AnomalyTotal(periods, labels) ==
    IF labels = {} THEN 0
    ELSE LET l == CHOOSE x \in labels : TRUE
             same == {x \in labels : Len(periods[x].anomalies) = Len(periods[l].anomalies)}
         IN Len(periods[l].anomalies) * Cardinality(same)
            + AnomalyTotal(periods, labels \ same)

\* np.mean of the period scores
AvgScore(periods) ==
    <<ScoreSum(periods, DOMAIN periods), Cardinality(DOMAIN periods)>>

\* AvgAtLeast with a strict comparison
AvgAtLeast_Strict(avg, bound) == avg[2] > 0 /\ avg[1] > bound * avg[2]

\* avg >= bound; the mean of no value is nan, which is >= nothing
AvgAtLeast(avg, bound) == avg[2] > 0 /\ avg[1] >= bound * avg[2]

\* the key order of sort(key=avg_score): a's mean is below b's
AvgLess(a, b) == a[1] * b[2] < b[1] * a[2]

IsSystematicOffender(periods) ==
    HighScorePeriods(periods) >= 2 \/ AvgAtLeast(AvgScore(periods), 15)

Offender(employee, periods) ==
    [employee |-> employee,
     avg_score |-> AvgScore(periods),
     high_score_periods |-> HighScorePeriods(periods),
     total_anomalies |-> AnomalyTotal(periods, DOMAIN periods)]

\* the loop over analysis_results.items(), in insertion order
CollectOffenders(results) ==
    LET order == SortedSeq(DOMAIN results)
        found == SelectSeq(order, LAMBDA e : IsSystematicOffender(results[e]))
    IN [i \in 1..Len(found) |-> Offender(found[i], results[found[i]])]

\* InsertByAvgDesc without reverse=True: ascending
RECURSIVE InsertByAvgAsc(_, _)
InsertByAvgAsc(sorted, o) ==
    IF sorted = <<>> THEN <<o>>
    ELSE IF AvgLess(o.avg_score, Head(sorted).avg_score)
         THEN <<o>> \o sorted
         ELSE <<Head(sorted)>> \o InsertByAvgAsc(Tail(sorted), o)

\* sort(key=avg_score, reverse=True): stable, equal means keep their order
RECURSIVE InsertByAvgDesc(_, _)
InsertByAvgDesc(sorted, o) ==
    IF sorted = <<>> THEN <<o>>
    ELSE IF AvgLess(Head(sorted).avg_score, o.avg_score)
         THEN <<o>> \o sorted
         ELSE <<Head(sorted)>> \o InsertByAvgDesc(Tail(sorted), o)

RECURSIVE SortOffenders(_, _)
SortOffenders(sorted, rest) ==
    IF rest = <<>> THEN sorted
    ELSE SortOffenders(InsertByAvgDesc(sorted, Head(rest)), Tail(rest))

\* systematic_offenders[:5]
TopFive(offenders) == SubSeq(offenders, 1, Min2(5, Len(offenders)))

(***************************************************************************)
(* The CSV files the model reads.                                          *)
(***************************************************************************)
MaxExtra == 1        \* punch pairs of a day beyond the first two
MaxRows == 2         \* rows of a file with several employees and dates

TwoDigits(n) == <<DigitChars[(n \div 10) + 1], DigitChars[(n % 10) + 1]>>

\* the clock's token for minute m of the day, such as 07:54a
Tok(m) ==
    LET h24 == m \div 60
        h12 == IF h24 % 12 = 0 THEN 12 ELSE h24 % 12
    IN TwoDigits(h12) \o <<":">> \o TwoDigits(m % 60) \o <<IF h24 < 12 THEN "a" ELSE "p">>

DateCell(d) == [d |-> d, form |-> "mm/dd/yy"]

\* a row whose out punch is dated `later` days after its in punch
Row(e, d, in, out, later) ==
    [DisplayAs |-> e, InDate |-> DateCell(d), OutDate |-> DateCell(d + later),
     InTime |-> Tok(in), OutTime |-> Tok(out)]

\* a row whose out time has no a/p suffix
MalformedRow(e, d) ==
    [DisplayAs |-> e, InDate |-> DateCell(d), OutDate |-> DateCell(d),
     InTime |-> Tok(480), OutTime |-> <<"0", "4", ":", "3", "0">>]

\* one employee, one day (Wednesday 2024-01-10): <<in, out, later>>
DayPairs ==
    {<<480, 720, 0>>, <<485, 727, 0>>, <<474, 992, 0>>, <<487, 726, 0>>,
     <<488, 731, 0>>, <<490, 732, 0>>, <<468, 708, 0>>, <<469, 712, 0>>,
     <<659, 714, 0>>,
     <<660, 990, 0>>, <<750, 960, 0>>, <<755, 995, 0>>, <<757, 983, 0>>,
     <<758, 1002, 0>>, <<761, 975, 0>>, <<744, 954, 0>>, <<738, 1001, 0>>,
     <<756, 968, 0>>,
     <<483, 722, 1>>, <<752, 962, 1>>, <<1380, 60, 1>>}
ExtraPairs == {<<1020, 1080, 0>>, <<420, 450, 0>>, <<1025, 1085, 1>>}

PairRow(p) == Row(1, 9, p[1], p[2], p[3])

DayInputs ==
    {<<PairRow(p)>> : p \in DayPairs}
    \cup {<<PairRow(p), PairRow(q)>> \o [i \in 1..Len(x) |-> PairRow(x[i])] :
            p \in DayPairs, q \in DayPairs,
            x \in UNION {[1..n -> ExtraPairs] : n \in 0..MaxExtra}}

\* a row whose in time is an empty cell
EmptyInRow(e, d) ==
    [DisplayAs |-> e, InDate |-> DateCell(d), OutDate |-> DateCell(d),
     InTime |-> <<>>, OutTime |-> Tok(720)]

\* a row whose in date strptime rejects
BadDateRow(e, d) ==
    [DisplayAs |-> e, InDate |-> [d |-> d, form |-> "bad"], OutDate |-> DateCell(d),
     InTime |-> Tok(480), OutTime |-> Tok(720)]

\* two employees over two periods: Thu 01/04, Sat 01/06, Mon 01/15
RunEmployees == {1, 2}
RunDates == {3, 5, 14}
RunRows ==
    {Row(e, d, 480, 720, 0) : e \in RunEmployees, d \in RunDates}
    \cup {Row(e, d, 750, 990, 1) : e \in RunEmployees, d \in RunDates}
    \cup {MalformedRow(e, d) : e \in RunEmployees, d \in RunDates}
    \cup {EmptyInRow(1, 3), BadDateRow(2, 3)}
RunInputs == UNION {[1..n -> RunRows] : n \in 0..MaxRows}

\* a row whose in time has hour 13 and minute 75: time_to_minutes gives 1575
OutOfRangeRow ==
    [DisplayAs |-> 1, InDate |-> DateCell(9), OutDate |-> DateCell(9),
     InTime |-> <<"1", "3", ":", "7", "5", "p">>,
     OutTime |-> <<"1", "2", ":", "0", "0", "a">>]

Inputs == DayInputs \cup RunInputs \cup {<<OutOfRangeRow>>}

(***************************************************************************)
(* The run: main of src/main.py (through run_analysis) and main of         *)
(* src/app.py make the same calls in the same order.                       *)
(***************************************************************************)
Init ==
    /\ pc = "load"
    /\ data = None
    /\ processed_data = None
    /\ two_week_periods = <<>>
    /\ employees = <<>>
    /\ emp_i = 1
    /\ per_i = 1
    /\ analysis_results = <<>>
    /\ punch_data = <<>>
    /\ color_data = <<>>
    /\ total_hours_data = <<>>
    /\ systematic_offenders = <<>>
    /\ surfaced = <<>>
    /\ time_token = <<>>
    /\ returned = None
    /\ runs = 1
    /\ pending = {}

\* load_data: pd.read_csv succeeds
LoadData ==
    /\ pc = "load"
    /\ \E rows \in Inputs : data' = Some(rows)
    /\ pc' = "process"
    /\ UNCHANGED <<processed_data, two_week_periods, employees, emp_i, per_i,
                   analysis_results, punch_data, color_data, total_hours_data,
                   systematic_offenders, surfaced,
                   time_token, returned, runs, pending>>

\* load_data: pd.read_csv raises; the driver reports the failure and stops
LoadFails ==
    /\ pc = "load"
    /\ pc' = "failed"
    /\ UNCHANGED <<data, processed_data, two_week_periods, employees, emp_i, per_i,
                   analysis_results, punch_data, color_data, total_hours_data,
                   systematic_offenders, surfaced,
                   time_token, returned, runs, pending>>

ProcessData ==
    /\ pc = "process"
    /\ processed_data' = Some(ProcessRows(<<>>, data[1]))
    /\ pc' = "periods"
    /\ UNCHANGED <<data, two_week_periods, employees, emp_i, per_i,
                   analysis_results, punch_data, color_data, total_hours_data,
                   systematic_offenders, surfaced,
                   time_token, returned, runs, pending>>

CreateTwoWeekPeriods ==
    /\ pc = "periods"
    /\ two_week_periods' =
           IF processed_data = None \/ Len(processed_data[1]) = 0
           THEN two_week_periods
           ELSE CreatePeriods(processed_data[1])
    /\ pc' = "employees"
    /\ UNCHANGED <<data, processed_data, employees, emp_i, per_i,
                   analysis_results, punch_data, color_data, total_hours_data,
                   systematic_offenders, surfaced,
                   time_token, returned, runs, pending>>

\* employees = sorted(processed_data['employee'].unique()); a frame built from no
\* record has no 'employee' column and the lookup raises KeyError
GetEmployees ==
    /\ pc = "employees"
    /\ IF Len(processed_data[1]) = 0
       THEN /\ pc' = "error"
            /\ UNCHANGED <<employees, emp_i, per_i>>
       ELSE /\ employees' = UniqueEmployees(processed_data[1])
            /\ emp_i' = 1
            /\ per_i' = 1
            /\ pc' = "analyze"
    /\ UNCHANGED <<data, processed_data, two_week_periods,
                   analysis_results, punch_data, color_data, total_hours_data,
                   systematic_offenders, surfaced,
                   time_token, returned, runs, pending>>

\* a variant that leaves the loop after the first employee
AnalyzeStep_FirstEmployeeOnly ==
    /\ pc = "analyze"
    /\ LET employee == employees[emp_i]
           period == two_week_periods[per_i]
           result == analyze_employee_period(processed_data[1], employee, period)
           sofar == IF per_i = 1 THEN <<>> ELSE analysis_results[employee]
       IN analysis_results' = Put(analysis_results, employee, Put(sofar, period.label, result))
    /\ IF per_i < Len(two_week_periods)
       THEN /\ per_i' = per_i + 1
            /\ UNCHANGED <<emp_i, pc>>
       ELSE /\ per_i' = 1
            /\ emp_i' = emp_i + 1
            /\ pc' = "heatmap"
    /\ UNCHANGED <<data, processed_data, two_week_periods, employees,
                   punch_data, color_data, total_hours_data,
                   systematic_offenders, surfaced,
                   time_token, returned, runs, pending>>
\* one iteration of the inner loop: analysis_results[employee][period['label']] = result
AnalyzeStep ==
    /\ pc = "analyze"
    /\ LET employee == employees[emp_i]
           period == two_week_periods[per_i]
           result == analyze_employee_period(processed_data[1], employee, period)
           sofar == IF per_i = 1 THEN <<>> ELSE analysis_results[employee]
       IN analysis_results' = Put(analysis_results, employee, Put(sofar, period.label, result))
    /\ IF per_i < Len(two_week_periods)
       THEN /\ per_i' = per_i + 1
            /\ UNCHANGED <<emp_i, pc>>
       ELSE /\ per_i' = 1
            /\ emp_i' = emp_i + 1
            /\ pc' = IF emp_i < Len(employees) THEN "analyze" ELSE "heatmap"
    /\ UNCHANGED <<data, processed_data, two_week_periods, employees,
                   punch_data, color_data, total_hours_data,
                   systematic_offenders, surfaced,
                   time_token, returned, runs, pending>>

\* generate_heat_map
GenerateHeatMap ==
    /\ pc = "heatmap"
    /\ LET tables == HeatmapTables(processed_data[1])
       IN /\ punch_data' = [e \in DOMAIN tables |->
                               [k \in DOMAIN tables[e] |-> tables[e][k].punch]]
          /\ color_data' = [e \in DOMAIN tables |->
                               [k \in DOMAIN tables[e] |-> tables[e][k].color]]
          /\ total_hours_data' = [e \in DOMAIN tables |->
                                     [k \in DOMAIN tables[e] |-> tables[e][k].total]]
    /\ pc' = "report"
    /\ UNCHANGED <<data, processed_data, two_week_periods, employees, emp_i, per_i,
                   analysis_results, systematic_offenders, surfaced,
                   time_token, returned, runs, pending>>

\* generate_report
GenerateReport ==
    /\ pc = "report"
    /\ LET sorted == SortOffenders(<<>>, CollectOffenders(analysis_results))
       IN /\ systematic_offenders' = sorted
          /\ surfaced' = TopFive(sorted)
    /\ pc' = "done"
    /\ UNCHANGED <<data, processed_data, two_week_periods, employees, emp_i, per_i,
                   analysis_results, punch_data, color_data, total_hours_data,
                   time_token, returned, runs, pending>>

Next ==
    \/ LoadData
    \/ LoadFails
    \/ ProcessData
    \/ CreateTwoWeekPeriods
    \/ GetEmployees
    \/ AnalyzeStep
    \/ GenerateHeatMap
    \/ GenerateReport

Spec == Init /\ [][Next]_vars

(***************************************************************************)
(* generate_report on its own: the results it reads are drawn from the     *)
(* results a run can store.  A result is built from the severities of its  *)
(* anomalies; the rest of the analyzer is as the constructor leaves it.    *)
(***************************************************************************)
MaxOffenders == 6      \* employees of a drawn result set
ReportLastDay == 27    \* the latest observed date of the drawn run

ReportPeriods == EmitPeriods(0, ReportLastDay)

\* anomaly severities of one period: scores 0, 14, 15, 16, 19, 20, 22, 25
Profiles ==
    {<<>>,
     <<"high", "low", "low">>,
     <<"high", "medium">>,
     <<"high", "low", "low", "low">>,
     <<"high", "medium", "low", "low">>,
     <<"high", "high">>,
     <<"high", "high", "low">>,
     <<"high", "high", "medium">>}

\* the result of a period in which the employee missed the first days of the
\* first week, came once with a single pair per "medium" and left for lunch
\* at an irregular time once per "low"
ProfileAnomaly(period, profile, i) ==
    LET highs == Cardinality({j \in 1..Len(profile) : profile[j] = "high"})
    IN IF profile[i] = "high"
       THEN [type |-> "missed_day", date |-> period.start + i - 1, severity |-> "high"]
       ELSE IF profile[i] = "medium"
       THEN [type |-> "incomplete_day", date |-> period.start + 7 + (i - highs - 1),
             severity |-> "medium"]
       ELSE [type |-> "irregular_lunch_departure",
             date |-> period.start + 7 + (i - highs - 1), severity |-> "low"]

ProfileResult(employee, period, profile) ==
    LET anomalies == [i \in 1..Len(profile) |-> ProfileAnomaly(period, profile, i)]
        missed == Cardinality({j \in 1..Len(profile) : profile[j] = "high"})
    IN [employee |-> employee, period |-> period.label, anomalies |-> anomalies,
        score |-> AnomalyScore(anomalies),
        total_days |-> 10, worked_days |-> 10 - missed, missed_days |-> missed]

\* one profile per period
ProfileVectors == [1..Len(ReportPeriods) -> Profiles]
\* the same in every period, or alternating between two
PlainVectors ==
    {[i \in 1..Len(ReportPeriods) |-> p] :
        p \in {<<>>, <<"high", "low", "low", "low">>, <<"high", "high", "low">>}}
    \cup {[i \in 1..Len(ReportPeriods) |->
              IF i % 2 = 1 THEN <<"high", "low", "low">>
              ELSE <<"high", "low", "low", "low">>]}

ResultsOf(choice) ==
    [e \in DOMAIN choice |->
        [l \in {ReportPeriods[i].label : i \in 1..Len(ReportPeriods)} |->
            LET i == CHOOSE j \in 1..Len(ReportPeriods) : ReportPeriods[j].label = l
            IN ProfileResult(e, ReportPeriods[i], choice[e][i])]]

\* one employee with any profile per period, or n employees with plain ones
ReportInputs(n) ==
    IF n = 1 THEN [1..1 -> ProfileVectors] ELSE [1..n -> PlainVectors]

InitReport ==
    /\ pc = "report"
    /\ data = None
    /\ processed_data = None
    /\ two_week_periods = ReportPeriods
    /\ \E n \in 1..MaxOffenders : \E c \in ReportInputs(n) :
           analysis_results = ResultsOf(c)
    /\ employees = SortedSeq(DOMAIN analysis_results)
    /\ emp_i = Len(employees) + 1
    /\ per_i = 1
    /\ punch_data = <<>>
    /\ color_data = <<>>
    /\ total_hours_data = <<>>
    /\ systematic_offenders = <<>>
    /\ surfaced = <<>>
    /\ time_token = <<>>
    /\ returned = None
    /\ runs = 1
    /\ pending = {}

NextReport == GenerateReport

SpecReport == InitReport /\ [][NextReport]_vars

(***************************************************************************)
(* time_to_minutes on its own: a token is drawn and the call returns.      *)
(***************************************************************************)
MaxHour == 13          \* the hours written in a drawn token: 0..MaxHour
MaxMinute == 61        \* the minutes written in a drawn token: 0..MaxMinute

\* str(n)
Digits(n) == IF n < 10 THEN <<DigitChars[n + 1]>> ELSE TwoDigits(n)

HourTexts ==
    {Digits(h) : h \in 0..MaxHour} \cup {TwoDigits(h) : h \in 0..MaxHour}
    \cup {<<>>, <<"-", "1">>, <<"+", "7">>, <<"1", "_", "0">>, <<"7", " ">>, <<"x">>}
MinuteTexts ==
    {TwoDigits(m) : m \in 0..MaxMinute}
    \cup {<<"7", "5">>, <<"5">>, <<>>, <<"-", "3", "0">>, <<"3", "x">>}
Suffixes == {<<"a">>, <<"p">>, <<"A">>, <<"P">>, <<>>, <<"m">>}
\* whitespace before and after the token
Paddings == {<<<<>>, <<>>>>, <<<<" ">>, <<>>>>, <<<<" ">>, <<"\t">>>>}
\* tokens with no colon or with two
OddTokens ==
    {<<>>, <<" ">>, <<"a">>, <<"0", "7", "5", "4", "a">>,
     <<"7", ":", "5", "4", ":", "0", "0", "a">>}

InitTime ==
    /\ pc = "call"
    /\ \/ \E h \in HourTexts : \E m \in MinuteTexts : \E s \in Suffixes :
            \E pad \in Paddings :
                time_token = pad[1] \o h \o <<":">> \o m \o s \o pad[2]
       \/ time_token \in OddTokens
    /\ returned = None
    /\ data = None
    /\ processed_data = None
    /\ two_week_periods = <<>>
    /\ employees = <<>>
    /\ emp_i = 1
    /\ per_i = 1
    /\ analysis_results = <<>>
    /\ punch_data = <<>>
    /\ color_data = <<>>
    /\ total_hours_data = <<>>
    /\ systematic_offenders = <<>>
    /\ surfaced = <<>>
    /\ runs = 1
    /\ pending = {}

TimeToMinutes ==
    /\ pc = "call"
    /\ returned' = time_to_minutes(time_token)
    /\ pc' = "returned"
    /\ UNCHANGED <<time_token, data, processed_data, two_week_periods, employees,
                   emp_i, per_i, analysis_results, punch_data, color_data,
                   total_hours_data, systematic_offenders, surfaced, runs, pending>>

NextTime == TimeToMinutes

SpecTime == InitTime /\ [][NextTime]_vars

(***************************************************************************)
(* The analysis with the (employee, period) computations of the loop of    *)
(* run_analysis executed in any order, and started again on the same       *)
(* analyzer object with the same file.                                     *)
(***************************************************************************)
MaxRuns == 2           \* analyses started on one analyzer object

OrderRows ==
    {Row(e, d, 480, 720, 0) : e \in RunEmployees, d \in {3, 14}}
    \cup {Row(1, 3, 750, 990, 1), MalformedRow(2, 3)}
OrderInputs == UNION {[1..n -> OrderRows] : n \in 1..MaxRows}

\* run_analysis up to the loop: load_data, process_data,
\* create_two_week_periods and the list of employees
Prepare(rows) ==
    LET records == ProcessRows(<<>>, rows)
    IN /\ data' = Some(rows)
       /\ processed_data' = Some(records)
       /\ IF Len(records) = 0
          THEN /\ pc' = "error"
               /\ UNCHANGED <<two_week_periods, employees, pending>>
          ELSE /\ two_week_periods' = CreatePeriods(records)
               /\ employees' = UniqueEmployees(records)
               /\ pending' = Range(UniqueEmployees(records))
                                 \X (1..Len(CreatePeriods(records)))
               /\ pc' = "analyze"

StartAnalysis ==
    /\ pc = "load"
    /\ \E rows \in OrderInputs : Prepare(rows)
    /\ UNCHANGED <<emp_i, per_i, analysis_results, punch_data, color_data,
                   total_hours_data, systematic_offenders, surfaced,
                   time_token, returned, runs>>

\* self.analysis_results[employee] = {} when `fresh`, then
\* self.analysis_results[employee][period['label']] = result
StoreResult_AlwaysFresh(results, employee, label, result, fresh) ==
    Put(results, employee, Put(<<>>, label, result))

StoreResult(results, employee, label, result, fresh) ==
    LET sofar == IF fresh THEN <<>> ELSE results[employee]
    IN Put(results, employee, Put(sofar, label, result))

\* one (employee, period) computation, any of those not yet executed; the
\* employee's dictionary is created before the employee's first computation
AnalyzeAny ==
    /\ pc = "analyze"
    /\ \E p \in pending :
           LET employee == p[1]
               period == two_week_periods[p[2]]
               result == analyze_employee_period(processed_data[1], employee, period)
               fresh == \A i \in 1..Len(two_week_periods) : <<employee, i>> \in pending
           IN /\ analysis_results' =
                     StoreResult(analysis_results, employee, period.label, result, fresh)
              /\ pending' = pending \ {p}
              /\ pc' = IF pending \ {p} = {} THEN "heatmap" ELSE "analyze"
    /\ UNCHANGED <<data, processed_data, two_week_periods, employees, emp_i, per_i,
                   punch_data, color_data, total_hours_data,
                   systematic_offenders, surfaced, time_token, returned, runs>>

\* the analysis is started again on the same object; the file is the same
RunAgain ==
    /\ pc = "done"
    /\ runs < MaxRuns
    /\ runs' = runs + 1
    /\ Prepare(data[1])
    /\ UNCHANGED <<emp_i, per_i, analysis_results, punch_data, color_data,
                   total_hours_data, systematic_offenders, surfaced,
                   time_token, returned>>

NextAnyOrder ==
    \/ StartAnalysis
    \/ AnalyzeAny
    \/ GenerateHeatMap
    \/ GenerateReport
    \/ RunAgain

SpecAnyOrder == Init /\ [][NextAnyOrder]_vars

(***************************************************************************)
(* Properties.  What follows reads the state the model leaves and states   *)
(* each property on its own terms, without the operators above.            *)
(***************************************************************************)
Records == IF processed_data = None THEN <<>> ELSE processed_data[1]

\* the stored results: <<employee, index of the period>>
Stored ==
    {ei \in (DOMAIN analysis_results) \X (1..Len(two_week_periods)) :
        two_week_periods[ei[2]].label \in DOMAIN analysis_results[ei[1]]}
ResultAt(e, i) == analysis_results[e][two_week_periods[i].label]

\* the working-set records of employee e on date d
RecordsOn(e, d) ==
    {k \in 1..Len(Records) : Records[k].employee = e /\ Records[k].date = d}
PunchedInPeriod(e, i) ==
    \E k \in 1..Len(Records) :
        /\ Records[k].employee = e
        /\ Records[k].date >= two_week_periods[i].start
        /\ Records[k].date <= two_week_periods[i].end

CountSeverity(anomalies, severity) ==
    Cardinality({k \in 1..Len(anomalies) : anomalies[k].severity = severity})
\* the anomalies of a type on a date
OfType(anomalies, type, d) ==
    {k \in 1..Len(anomalies) : anomalies[k].type = type /\ anomalies[k].date = d}

MinOf(S) == CHOOSE x \in S : \A y \in S : x <= y
MaxOf(S) == CHOOSE x \in S : \A y \in S : x >= y

\* C1: the score of every stored result is 10 x its high anomalies + 5 x its
\* medium anomalies + 2 x its low anomalies, and is 0 iff it has no anomaly
C1_ScoreIsWeightedSum ==
    \A ei \in Stored :
        LET r == ResultAt(ei[1], ei[2])
        IN /\ r.score = 10 * CountSeverity(r.anomalies, "high")
                        + 5 * CountSeverity(r.anomalies, "medium")
                        + 2 * CountSeverity(r.anomalies, "low")
           /\ (r.score = 0 <=> r.anomalies = <<>>)

\* a result holding anomalies of all three severities
C1_Witness ==
    \E ei \in Stored :
        LET r == ResultAt(ei[1], ei[2])
        IN /\ CountSeverity(r.anomalies, "high") > 0
           /\ CountSeverity(r.anomalies, "medium") > 0
           /\ CountSeverity(r.anomalies, "low") > 0
           /\ r.score > 0

\* the missed_day anomalies of a result are exactly one, of severity high, for
\* each Monday-to-Friday date of the period without a punch pair of the employee
MissedDaysExact(e, i) ==
    LET r == ResultAt(e, i)
        p == two_week_periods[i]
    IN /\ \A d \in p.start..p.end :
              LET found == OfType(r.anomalies, "missed_day", d)
              IN IF Weekday(d) < 5 /\ RecordsOn(e, d) = {}
                 THEN /\ Cardinality(found) = 1
                      /\ \A k \in found : r.anomalies[k].severity = "high"
                 ELSE found = {}
       /\ \A k \in 1..Len(r.anomalies) :
              r.anomalies[k].type = "missed_day" =>
                  r.anomalies[k].date \in p.start..p.end

\* C2, as claimed: for every employee and every period, every weekday of the
\* period without a punch pair has exactly one missed_day (high), and no other
\* date has one
C2_Original == \A ei \in Stored : MissedDaysExact(ei[1], ei[2])

\* C2, amended: that holds for every employee with at least one punch pair in
\* the period; a result of a period in which the employee has no punch pair
\* lists no anomaly at all
C2_MissedDays ==
    \A ei \in Stored :
        IF PunchedInPeriod(ei[1], ei[2])
        THEN MissedDaysExact(ei[1], ei[2])
        ELSE ResultAt(ei[1], ei[2]).anomalies = <<>>

\* one employee with a missed weekday in a period it punched in, and a stored
\* result of a period some employee did not punch in
C2_Witness ==
    /\ \E ei \in Stored :
           /\ PunchedInPeriod(ei[1], ei[2])
           /\ \E k \in 1..Len(ResultAt(ei[1], ei[2]).anomalies) :
                  ResultAt(ei[1], ei[2]).anomalies[k].type = "missed_day"
           /\ \E d \in two_week_periods[ei[2]].start..two_week_periods[ei[2]].end :
                  Weekday(d) >= 5 /\ RecordsOn(ei[1], d) # {}
    /\ \E ei \in Stored : ~PunchedInPeriod(ei[1], ei[2])

\* C3, as claimed: a missed_day is emitted only for a weekday on which some
\* employee has a valid punch and the employee at hand has none
C3_MissedOnlyOnObservedDates ==
    \A ei \in Stored :
        LET r == ResultAt(ei[1], ei[2])
        IN \A k \in 1..Len(r.anomalies) :
               r.anomalies[k].type = "missed_day" =>
                   /\ Weekday(r.anomalies[k].date) < 5
                   /\ RecordsOn(ei[1], r.anomalies[k].date) = {}
                   /\ \E j \in 1..Len(Records) : Records[j].date = r.anomalies[k].date

\* the scores of an employee, one per period of the run
PeriodScores(e) == [i \in 1..Len(two_week_periods) |-> ResultAt(e, i).score]
RECURSIVE SeqSum(_)
SeqSum(q) == IF q = <<>> THEN 0 ELSE Head(q) + SeqSum(Tail(q))
ScoreTotal(e) == SeqSum(PeriodScores(e))
Qualifies(e) ==
    \/ Cardinality({i \in 1..Len(two_week_periods) : PeriodScores(e)[i] >= 20}) >= 2
    \/ ScoreTotal(e) >= 15 * Len(two_week_periods)
Qualifying == {e \in DOMAIN analysis_results : Qualifies(e)}
Names(offenders) == {offenders[i].employee : i \in 1..Len(offenders)}

C5_TopFive ==
    pc = "done" =>
        /\ Len(surfaced) = (IF Cardinality(Qualifying) <= 5
                            THEN Cardinality(Qualifying) ELSE 5)
        /\ Names(surfaced) \subseteq Qualifying
        /\ Cardinality(Names(surfaced)) = Len(surfaced)
        /\ \A i \in 1..Len(surfaced) : \A j \in 1..Len(surfaced) :
               i < j => ScoreTotal(surfaced[i].employee) >= ScoreTotal(surfaced[j].employee)
        /\ \A e \in Qualifying \ Names(surfaced) : \A s \in Names(surfaced) :
               ScoreTotal(e) <= ScoreTotal(s)
        /\ (Cardinality(Qualifying) <= 5 => Names(surfaced) = Qualifying)

\* six qualify, with different means: five are listed and one is left out
C5_Witness ==
    /\ pc = "done"
    /\ Cardinality(Qualifying) = 6
    /\ Len(surfaced) = 5
    /\ ScoreTotal(surfaced[1].employee) > ScoreTotal(surfaced[5].employee)
    /\ \E e \in Qualifying \ Names(surfaced) :
           ScoreTotal(e) < ScoreTotal(surfaced[5].employee)

\* the in-times and the sorted records of employee e on date d
InTimesOn(e, d) == {Records[k].in_time_minutes : k \in RecordsOn(e, d)}
TimingTypes ==
    {"late_arrival", "irregular_lunch_departure", "late_lunch_return", "irregular_end_time"}

\* C6: on a day with exactly two pairs there is one late_arrival (medium,
\* minutes_late = first.in - 480) iff first.in > 487 and one late_lunch_return
\* (medium, minutes_late = second.in - 750) iff second.in > 757, else none
C6_OneSidedLateness ==
    \A ei \in Stored :
        LET r == ResultAt(ei[1], ei[2])
            p == two_week_periods[ei[2]]
        IN \A d \in p.start..p.end :
               Cardinality(RecordsOn(ei[1], d)) = 2 =>
                   LET first_in == MinOf(InTimesOn(ei[1], d))
                       second_in == MaxOf(InTimesOn(ei[1], d))
                       arrivals == OfType(r.anomalies, "late_arrival", d)
                       returns == OfType(r.anomalies, "late_lunch_return", d)
                   IN /\ Cardinality(arrivals) = (IF first_in > 487 THEN 1 ELSE 0)
                      /\ \A k \in arrivals :
                             /\ r.anomalies[k].severity = "medium"
                             /\ r.anomalies[k].minutes_late = first_in - 480
                      /\ Cardinality(returns) = (IF second_in > 757 THEN 1 ELSE 0)
                      /\ \A k \in returns :
                             /\ r.anomalies[k].severity = "medium"
                             /\ r.anomalies[k].minutes_late = second_in - 750

\* a two-pair day with arrival at 08:10: one late_arrival, 10 minutes late
C6_Witness ==
    \E ei \in Stored : \E d \in two_week_periods[ei[2]].start..two_week_periods[ei[2]].end :
        /\ Cardinality(RecordsOn(ei[1], d)) = 2
        /\ MinOf(InTimesOn(ei[1], d)) = 490
        /\ \E k \in OfType(ResultAt(ei[1], ei[2]).anomalies, "late_arrival", d) :
               /\ ResultAt(ei[1], ei[2]).anomalies[k].minutes_late = 10
               /\ ResultAt(ei[1], ei[2]).anomalies[k].severity = "medium"

\* C7: by the number n of pairs of a day: n = 1 gives one incomplete_day
\* (medium); n > 2 gives one extra_punches (low) reporting n - 2; the timing
\* anomalies come only with n = 2, at most one of each; n = 0 gives nothing
\* but a possible missed_day
C7_PatternByPairCount ==
    \A ei \in Stored :
        LET r == ResultAt(ei[1], ei[2])
            p == two_week_periods[ei[2]]
        IN \A d \in p.start..p.end :
               LET n == Cardinality(RecordsOn(ei[1], d))
                   incomplete == OfType(r.anomalies, "incomplete_day", d)
                   extra == OfType(r.anomalies, "extra_punches", d)
               IN /\ Cardinality(incomplete) = (IF n = 1 THEN 1 ELSE 0)
                  /\ \A k \in incomplete : r.anomalies[k].severity = "medium"
                  /\ Cardinality(extra) = (IF n > 2 THEN 1 ELSE 0)
                  /\ \A k \in extra : /\ r.anomalies[k].severity = "low"
                                      /\ r.anomalies[k].extra_punches = n - 2
                  /\ \A t \in TimingTypes :
                         Cardinality(OfType(r.anomalies, t, d)) <= (IF n = 2 THEN 1 ELSE 0)
                  /\ n = 0 => \A k \in 1..Len(r.anomalies) :
                                  r.anomalies[k].date = d => r.anomalies[k].type = "missed_day"

\* a day with more than two pairs and its extra_punches anomaly
C7_Witness ==
    \E ei \in Stored : \E d \in two_week_periods[ei[2]].start..two_week_periods[ei[2]].end :
        /\ Cardinality(RecordsOn(ei[1], d)) > 2
        /\ OfType(ResultAt(ei[1], ei[2]).anomalies, "extra_punches", d) # {}

\* the days of the heat map: employee and date with at least one pair
HeatmapDone == pc \in {"report", "done"} /\ punch_data # <<>>
PresentDays ==
    {ed \in (DOMAIN punch_data) \X {Records[k].date : k \in 1..Len(Records)} :
        RecordsOn(ed[1], ed[2]) # {}}
\* an ascending arrangement of the day's pairs, ties in the order of the file
Ascending(e, d) ==
    LET ks == RecordsOn(e, d)
        Before(a, b) ==
            \/ Records[a].in_time_minutes < Records[b].in_time_minutes
            \/ Records[a].in_time_minutes = Records[b].in_time_minutes /\ a < b
    IN [i \in 1..Cardinality(ks) |->
           Records[CHOOSE k \in ks : Cardinality({j \in ks : Before(j, k)}) = i - 1]]

\* C8: the first pair in ascending in-time order fills the morning slots iff
\* its in-time < 660 and the afternoon slots otherwise; the second pair fills
\* the afternoon slots iff the first is in the morning slots; no other pair
\* is placed, and no slot is overwritten
C8_SlotAssignment ==
    HeatmapDone =>
        \A ed \in PresentDays :
            LET recs == Ascending(ed[1], ed[2])
                punch == punch_data[ed[1]][DayKey(ed[2])]
                morning == recs[1].in_time_minutes < 660
            IN /\ punch.morn_in = (IF morning THEN recs[1].in_time_str ELSE <<>>)
               /\ punch.morn_out = (IF morning THEN recs[1].out_time_str ELSE <<>>)
               /\ punch.aft_in = (IF ~morning THEN recs[1].in_time_str
                                  ELSE IF Len(recs) >= 2 THEN recs[2].in_time_str
                                  ELSE <<>>)
               /\ punch.aft_out = (IF ~morning THEN recs[1].out_time_str
                                   ELSE IF Len(recs) >= 2 THEN recs[2].out_time_str
                                   ELSE <<>>)

\* a day whose first pair starts at or after 11:00 and so leaves its second
\* pair without a slot
C8_Witness ==
    /\ HeatmapDone
    /\ \E ed \in PresentDays :
           LET recs == Ascending(ed[1], ed[2])
               punch == punch_data[ed[1]][DayKey(ed[2])]
           IN /\ Len(recs) >= 2
              /\ recs[1].in_time_minutes >= 660
              /\ recs[2].in_time_str # recs[1].in_time_str
              /\ punch.aft_in = recs[1].in_time_str
              /\ punch.morn_in = <<>>

\* C9, as claimed: a day whose only pair starts before 11:00 fills the
\* morning-arrival slot only; the three other slots have no text and no band
C9_Original ==
    HeatmapDone =>
        \A ed \in PresentDays :
            LET recs == Ascending(ed[1], ed[2])
                punch == punch_data[ed[1]][DayKey(ed[2])]
                color == color_data[ed[1]][DayKey(ed[2])]
            IN (Len(recs) = 1 /\ recs[1].in_time_minutes < 660) =>
                   /\ punch.morn_in = recs[1].in_time_str
                   /\ punch.morn_out = <<>> /\ color.morn_out = "#F8F8F8"
                   /\ punch.aft_in = <<>> /\ color.aft_in = "#F8F8F8"
                   /\ punch.aft_out = <<>> /\ color.aft_out = "#F8F8F8"

\* the band of a difference in minutes
Band(diff) ==
    IF diff <= 5 THEN "#228B22"
    ELSE IF diff >= 6 /\ diff <= 7 THEN "#DAA520"
    ELSE IF diff >= 8 /\ diff <= 11 THEN "#FF6600"
    ELSE "#DC143C"
Dist(a, b) == IF a >= b THEN a - b ELSE b - a
EndDist(t) == IF Dist(t, 960) <= Dist(t, 990) THEN Dist(t, 960) ELSE Dist(t, 990)

\* C9, amended: such a day fills both morning slots, arrival with the in-time
\* and lunch-departure with the pair's out-time, banded against 12:00 (or
\* missed-out-punch when the pair's dates differ); the lunch-return and
\* end-of-day slots have no text and no band and are not absent
C9_SinglePairFillsMorning ==
    HeatmapDone =>
        \A ed \in PresentDays :
            LET recs == Ascending(ed[1], ed[2])
                punch == punch_data[ed[1]][DayKey(ed[2])]
                color == color_data[ed[1]][DayKey(ed[2])]
            IN (Len(recs) = 1 /\ recs[1].in_time_minutes < 660) =>
                   /\ punch.morn_in = recs[1].in_time_str
                   /\ punch.morn_out = recs[1].out_time_str
                   /\ color.morn_out = (IF recs[1].in_date # recs[1].out_date
                                        THEN "#9932CC"
                                        ELSE Band(Dist(recs[1].out_time_minutes, 720)))
                   /\ punch.aft_in = <<>> /\ color.aft_in = "#F8F8F8"
                   /\ punch.aft_out = <<>> /\ color.aft_out = "#F8F8F8"

\* the day whose only pair is 07:54a - 04:32p
C9_Witness ==
    /\ HeatmapDone
    /\ \E ed \in PresentDays :
           LET recs == Ascending(ed[1], ed[2])
               punch == punch_data[ed[1]][DayKey(ed[2])]
               color == color_data[ed[1]][DayKey(ed[2])]
           IN /\ Len(recs) = 1
              /\ recs[1].in_time_minutes = 474 /\ recs[1].out_time_minutes = 992
              /\ punch.morn_in = <<"0", "7", ":", "5", "4", "a">>
              /\ punch.morn_out = <<"0", "4", ":", "3", "2", "p">>
              /\ color.morn_out = "#DC143C"
              /\ punch.aft_out = <<>>

\* C10: on a day with at most two pairs every filled slot of a pair with
\* in-date = out-date has the band of its own difference: |t - 480| for
\* arrival, |t - 720| for lunch-departure, |t - 750| for lunch-return and
\* the smaller of |t - 960| and |t - 990| for end-of-day
C10_BandPerSlot ==
    HeatmapDone =>
        \A ed \in PresentDays :
            LET recs == Ascending(ed[1], ed[2])
                color == color_data[ed[1]][DayKey(ed[2])]
                morning == recs[1].in_time_minutes < 660
                SameDates(r) == r.in_date = r.out_date
            IN Len(recs) <= 2 =>
                   /\ (morning /\ SameDates(recs[1])) =>
                          /\ color.morn_in = Band(Dist(recs[1].in_time_minutes, 480))
                          /\ color.morn_out = Band(Dist(recs[1].out_time_minutes, 720))
                   /\ (~morning /\ SameDates(recs[1])) =>
                          /\ color.aft_in = Band(Dist(recs[1].in_time_minutes, 750))
                          /\ color.aft_out = Band(EndDist(recs[1].out_time_minutes))
                   /\ (morning /\ Len(recs) = 2 /\ SameDates(recs[2])) =>
                          /\ color.aft_in = Band(Dist(recs[2].in_time_minutes, 750))
                          /\ color.aft_out = Band(EndDist(recs[2].out_time_minutes))

\* a two-pair day whose four slots are in the four bands
C10_Witness ==
    /\ HeatmapDone
    /\ \E ed \in PresentDays :
           LET recs == Ascending(ed[1], ed[2])
               color == color_data[ed[1]][DayKey(ed[2])]
           IN /\ Len(recs) = 2
              /\ recs[1].in_date = recs[1].out_date
              /\ recs[2].in_date = recs[2].out_date
              /\ color = [morn_in |-> "#228B22", morn_out |-> "#DAA520",
                          aft_in |-> "#FF6600", aft_out |-> "#DC143C"]

(***************************************************************************)
(* The time normalizer.                                                    *)
(***************************************************************************)
\* the tokens <1-12>:<00-59><a|p>, in any case, the hour with or without a
\* leading zero, with the whitespace the drawn tokens carry
ClockTexts ==
    {<<pad, h, two, mm, s>> :
        pad \in Paddings, h \in 1..12, two \in BOOLEAN, mm \in 0..59,
        s \in {"a", "p", "A", "P"}}
ClockToken(c) ==
    c[1][1] \o (IF c[3] THEN TwoDigits(c[2]) ELSE Digits(c[2])) \o <<":">>
    \o TwoDigits(c[4]) \o <<c[5]>> \o c[1][2]
ClockMinutes(c) == (c[2] % 12) * 60 + c[4] + (IF c[5] \in {"p", "P"} THEN 720 ELSE 0)
WellFormedTokens == {ClockToken(c) : c \in ClockTexts}
ExpectedMinutes == {<<ClockToken(c), ClockMinutes(c)>> : c \in ClockTexts}

\* C11: for a token h:mm + a|p with h in 1..12 and mm in 00..59 (any case,
\* optional surrounding whitespace) time_to_minutes returns
\* (h mod 12) * 60 + mm, plus 720 for p, a value in 0..1439
C11_WellFormedTokenValue ==
    (pc = "returned" /\ time_token \in WellFormedTokens) =>
        /\ returned # None
        /\ <<time_token, returned[1]>> \in ExpectedMinutes
        /\ returned[1] \in 0..1439

\* 04:30p gives 990
C11_Witness ==
    /\ pc = "returned"
    /\ time_token = <<"0", "4", ":", "3", "0", "p">>
    /\ returned = Some(990)

\* C12: time_to_minutes returns None for every token that is not
\* <1-12>:<00-59><a|p>, and every value it returns lies in 0..1439
C12_RejectsEverythingElse ==
    pc = "returned" =>
        /\ time_token \notin WellFormedTokens => returned = None
        /\ returned # None => returned[1] \in 0..1439

(***************************************************************************)
(* The working set.                                                        *)
(***************************************************************************)
RowParses(row) ==
    /\ row.InDate.form # "bad"
    /\ time_to_minutes(row.InTime) # None
    /\ time_to_minutes(row.OutTime) # None
RecordOf(row) ==
    [employee |-> row.DisplayAs,
     date |-> row.InDate.d,
     in_time_str |-> row.InTime,
     out_time_str |-> row.OutTime,
     in_time_minutes |-> time_to_minutes(row.InTime)[1],
     out_time_minutes |-> time_to_minutes(row.OutTime)[1],
     in_date |-> row.InDate,
     out_date |-> row.OutDate]

\* C13: after process_data the working set is the input rows whose date
\* and two times parse, in input order and with their parsed values; the
\* other rows are absent and do not stop the rows after them
C13_WorkingSetIsParsedRows ==
    processed_data # None =>
        LET kept == SelectSeq(data[1], RowParses)
        IN /\ Len(Records) = Len(kept)
           /\ \A k \in 1..Len(kept) : Records[k] = RecordOf(kept[k])

\* a row whose out time has no suffix is dropped and the row after it is kept
C13_Witness ==
    /\ processed_data # None
    /\ Len(data[1]) = 2
    /\ time_to_minutes(data[1][1].OutTime) = None
    /\ data[1][2].DisplayAs = 2
    /\ Len(Records) = 1
    /\ Records[1].employee = 2
    /\ Records[1].in_time_minutes = 480

(***************************************************************************)
(* The periods.                                                            *)
(***************************************************************************)
PeriodsMade == pc \notin {"load", "failed", "process", "periods", "call", "returned"}
ObservedDates == {Records[k].date : k \in 1..Len(Records)}
PeriodsWith(d) ==
    {i \in 1..Len(two_week_periods) :
        two_week_periods[i].start <= d /\ d <= two_week_periods[i].end}

\* C14: for a non-empty working set the first period starts on the latest
\* Monday on or before the minimum observed date, every period starts on a
\* Monday and ends 13 days later, and each period after the first starts on
\* the day after the previous one ends, so no date is in two periods
C14_PeriodsTile ==
    (PeriodsMade /\ Len(Records) > 0) =>
        LET P == two_week_periods
            first == MinOf(ObservedDates)
        IN /\ Len(P) >= 1
           /\ P[1].start <= first
           /\ first - P[1].start < 7
           /\ \A i \in 1..Len(P) : P[i].start % 7 = 0 /\ P[i].end = P[i].start + 13
           /\ \A i \in 1..(Len(P) - 1) : P[i + 1].start = P[i].end + 1
           /\ \A i \in 1..Len(P) : \A j \in 1..Len(P) :
                  i < j => P[i].end < P[j].start

\* rows on Thursday 2024-01-04 and on Monday 2024-01-15: two periods, the
\* first starting on Monday 2024-01-01
C14_Witness ==
    /\ PeriodsMade
    /\ ObservedDates = {3, 14}
    /\ Len(two_week_periods) = 2
    /\ two_week_periods[1].start = 0
    /\ two_week_periods[2].start = 14

AnalysisDone == pc \in {"heatmap", "report", "done"}

WeekdaysIn(i) ==
    {d \in two_week_periods[i].start..two_week_periods[i].end : d % 7 < 5}

\* C16: in every stored result worked_days + missed_days = total_days and
\* total_days is the number of Monday-to-Friday dates of the period
C16_CountersSum ==
    \A ei \in Stored :
        LET r == ResultAt(ei[1], ei[2])
        IN /\ r.worked_days + r.missed_days = r.total_days
           /\ r.total_days = Cardinality(WeekdaysIn(ei[2]))

\* C17: an employee without a punch record in a period has a stored result
\* for that period, of that employee, with score 0 and no anomaly
C17_EmptyPeriodResult ==
    AnalysisDone =>
        \A e \in Range(employees) : \A i \in 1..Len(two_week_periods) :
            ~PunchedInPeriod(e, i) =>
                /\ <<e, i>> \in Stored
                /\ ResultAt(e, i).employee = e
                /\ ResultAt(e, i).period = two_week_periods[i].label
                /\ ResultAt(e, i).score = 0
                /\ ResultAt(e, i).anomalies = <<>>

\* employee 1 punched only in the first period and employee 2 only in the
\* second: the run ends with an empty result for each
C17_Witness ==
    /\ pc = "done"
    /\ Len(two_week_periods) = 2
    /\ ~PunchedInPeriod(1, 2)
    /\ ~PunchedInPeriod(2, 1)
    /\ ResultAt(1, 2).score = 0
    /\ ResultAt(2, 1).anomalies = <<>>
    /\ ResultAt(1, 1).score > 0

(***************************************************************************)
(* The run as a whole.                                                     *)
(***************************************************************************)
\* C18: no input makes the run raise an error; a file whose rows are all
\* dropped ends in a normal outcome with no period and no result
C18_NoInputAborts ==
    /\ pc # "error"
    /\ (PeriodsMade /\ pc # "employees" /\ Len(Records) = 0) =>
           two_week_periods = <<>> /\ analysis_results = <<>>

EmployeesOfRecords == {Records[k].employee : k \in 1..Len(Records)}
AllResultsStored ==
    /\ DOMAIN analysis_results = EmployeesOfRecords
    /\ \A e \in EmployeesOfRecords : \A i \in 1..Len(two_week_periods) :
           <<e, i>> \in Stored

\* C19: generate_report runs only when a result is stored for every
\* employee and every period, and leaves no trace before that
C19_AggregationAfterAnalysis ==
    /\ pc \in {"report", "done"} => AllResultsStored
    /\ pc \notin {"done"} => systematic_offenders = <<>> /\ surfaced = <<>>

\* two employees and two periods: the report follows four stored results
C19_Witness ==
    /\ pc = "done"
    /\ Cardinality(EmployeesOfRecords) = 2
    /\ Len(two_week_periods) = 2
    /\ Cardinality(Stored) = 4

(***************************************************************************)
(* The results as a function of the input.                                 *)
(***************************************************************************)
RecordsOfInput == ProcessRows(<<>>, data[1])
ResultOfInput(e, i) == analyze_employee_period(RecordsOfInput, e, two_week_periods[i])
TablesOfInput == HeatmapTables(RecordsOfInput)
AllPairs == Range(employees) \X (1..Len(two_week_periods))

MismatchedOn(e, d) == {k \in RecordsOn(e, d) : Records[k].in_date # Records[k].out_date}

\* C21: on every worked day there is one date_mismatch anomaly (medium) per
\* pair whose in-date differs from its out-date, whatever the number of
\* pairs, next to the day's pattern anomaly; none for a pair with equal dates
C21_OneMismatchPerPair ==
    \A ei \in Stored :
        LET r == ResultAt(ei[1], ei[2])
            p == two_week_periods[ei[2]]
        IN \A d \in p.start..p.end :
               LET mismatches == OfType(r.anomalies, "date_mismatch", d)
                   n == Cardinality(RecordsOn(ei[1], d))
               IN /\ Cardinality(mismatches) = Cardinality(MismatchedOn(ei[1], d))
                  /\ \A k \in mismatches : r.anomalies[k].severity = "medium"
                  /\ n = 1 => Cardinality(OfType(r.anomalies, "incomplete_day", d)) = 1
                  /\ n > 2 => Cardinality(OfType(r.anomalies, "extra_punches", d)) = 1

\* a day of three pairs, two of them with differing dates: two date_mismatch
\* anomalies and the extra_punches anomaly
C21_Witness ==
    \E ei \in Stored : \E d \in two_week_periods[ei[2]].start..two_week_periods[ei[2]].end :
        /\ Cardinality(RecordsOn(ei[1], d)) = 3
        /\ Cardinality(MismatchedOn(ei[1], d)) = 2
        /\ Cardinality(OfType(ResultAt(ei[1], ei[2]).anomalies, "date_mismatch", d)) = 2
        /\ OfType(ResultAt(ei[1], ei[2]).anomalies, "extra_punches", d) # {}

\* C22: on a day with exactly two pairs there is one irregular_lunch_departure
\* (low) iff |first.out - 720| > 7 and one irregular_end_time (low) iff
\* second.out is more than 7 minutes from both 960 and 990
C22_TwoSidedChecks ==
    \A ei \in Stored :
        LET r == ResultAt(ei[1], ei[2])
            p == two_week_periods[ei[2]]
        IN \A d \in p.start..p.end :
               Cardinality(RecordsOn(ei[1], d)) = 2 =>
                   LET recs == Ascending(ei[1], d)
                       departures == OfType(r.anomalies, "irregular_lunch_departure", d)
                       ends == OfType(r.anomalies, "irregular_end_time", d)
                   IN /\ Cardinality(departures) =
                             (IF Dist(recs[1].out_time_minutes, 720) > 7 THEN 1 ELSE 0)
                      /\ \A k \in departures : r.anomalies[k].severity = "low"
                      /\ Cardinality(ends) =
                             (IF Dist(recs[2].out_time_minutes, 960) > 7
                                 /\ Dist(recs[2].out_time_minutes, 990) > 7
                              THEN 1 ELSE 0)
                      /\ \A k \in ends : r.anomalies[k].severity = "low"

\* lunch departure at 11:52a, eight minutes early, is flagged; the end at
\* 04:23p, seven minutes before 16:30, is not
C22_Witness ==
    \E ei \in Stored : \E d \in two_week_periods[ei[2]].start..two_week_periods[ei[2]].end :
        /\ Cardinality(RecordsOn(ei[1], d)) = 2
        /\ Ascending(ei[1], d)[1].out_time_minutes = 712
        /\ Ascending(ei[1], d)[2].out_time_minutes = 983
        /\ OfType(ResultAt(ei[1], ei[2]).anomalies, "irregular_lunch_departure", d) # {}
        /\ OfType(ResultAt(ei[1], ei[2]).anomalies, "irregular_end_time", d) = {}


(***************************************************************************)
(* The missed-out-punch override of the heat map.                          *)
(***************************************************************************)
\* the pairs of a day that are given slots: <<pair, in slot, out slot, in target distance>>
PlacedPairs(recs) ==
    IF recs[1].in_time_minutes < 660
    THEN {<<recs[1], "morn_in", "morn_out", Dist(recs[1].in_time_minutes, 480)>>}
         \cup (IF Len(recs) >= 2
               THEN {<<recs[2], "aft_in", "aft_out", Dist(recs[2].in_time_minutes, 750)>>}
               ELSE {})
    ELSE {<<recs[1], "aft_in", "aft_out", Dist(recs[1].in_time_minutes, 750)>>}

\* C23: on a day of at most two pairs, a placed pair whose in-date and
\* out-date differ has its out slot in the missed-out-punch colour '#9932CC'
\* whatever the out-distance (also when it is <= 5), while its in slot keeps
\* its ordinary band; a placed pair with equal dates has no slot in '#9932CC'
C23_MissedOutPunchOverride ==
    HeatmapDone =>
        \A ed \in PresentDays :
            LET recs == Ascending(ed[1], ed[2])
                color == color_data[ed[1]][DayKey(ed[2])]
            IN Len(recs) <= 2 =>
                   \A pp \in PlacedPairs(recs) :
                       IF pp[1].in_date # pp[1].out_date
                       THEN /\ color[pp[3]] = "#9932CC"
                            /\ color[pp[2]] = Band(pp[4])
                       ELSE /\ color[pp[3]] # "#9932CC"
                            /\ color[pp[2]] # "#9932CC"

\* a two-pair day whose second pair ends 2 minutes from 4:00 PM on another
\* date: the out slot is purple, the in slot green, the first pair banded
C23_Witness ==
    /\ HeatmapDone
    /\ \E ed \in PresentDays :
           LET recs == Ascending(ed[1], ed[2])
               color == color_data[ed[1]][DayKey(ed[2])]
           IN /\ Len(recs) = 2
              /\ recs[1].in_time_minutes < 660
              /\ recs[1].in_date = recs[1].out_date
              /\ recs[2].in_date # recs[2].out_date
              /\ recs[2].out_time_minutes = 962
              /\ color.aft_out = "#9932CC"
              /\ color.aft_in = "#228B22"
              /\ color.morn_out # "#9932CC"


(***************************************************************************)
(* Days of more than two punch pairs.                                      *)
(***************************************************************************)
SlotNames == {"morn_in", "morn_out", "aft_in", "aft_out"}

\* C24: on a day of more than two pairs all four slots carry the multiple
\* punches marker '#FFB6C1', so none carries a severity band or '#9932CC',
\* also when a placed pair has different in- and out-dates; on a day of one
\* or two pairs no slot carries '#FFB6C1'
C24_FlaggedDay ==
    HeatmapDone =>
        \A ed \in PresentDays :
            LET recs == Ascending(ed[1], ed[2])
                color == color_data[ed[1]][DayKey(ed[2])]
            IN IF Len(recs) > 2
               THEN \A s \in SlotNames : color[s] = "#FFB6C1"
               ELSE \A s \in SlotNames : color[s] # "#FFB6C1"

\* a day of three pairs whose second pair has an out-date after its in-date
\* and whose first pair is 10 minutes late, all four slots pink
C24_Witness ==
    /\ HeatmapDone
    /\ \E ed \in PresentDays :
           LET recs == Ascending(ed[1], ed[2])
               color == color_data[ed[1]][DayKey(ed[2])]
           IN /\ Len(recs) = 3
              /\ recs[1].in_time_minutes = 490
              /\ recs[2].in_date # recs[2].out_date
              /\ color = UniformSlots("#FFB6C1")


(***************************************************************************)
(* The whole run on a file that spans eleven years.                        *)
(***************************************************************************)
\* Mon 2024-01-01, Mon 2024-01-15 and Mon 2035-01-01
YearsDates == {0, 14, 4018}
YearsRows == {Row(e, d, 480, 720, 0) : e \in RunEmployees, d \in YearsDates}
YearsInputs == [1..2 -> YearsRows]

\* load_data: pd.read_csv succeeds on a file of two rows
LoadYears ==
    /\ pc = "load"
    /\ \E rows \in YearsInputs : data' = Some(rows)
    /\ pc' = "process"
    /\ UNCHANGED <<processed_data, two_week_periods, employees, emp_i, per_i,
                   analysis_results, punch_data, color_data, total_hours_data,
                   systematic_offenders, surfaced,
                   time_token, returned, runs, pending>>

NextYears ==
    \/ LoadYears
    \/ ProcessData
    \/ CreateTwoWeekPeriods
    \/ GetEmployees
    \/ AnalyzeStep
    \/ GenerateHeatMap
    \/ GenerateReport

SpecYears == Init /\ [][NextYears]_vars

(***************************************************************************)
(* Absent days and empty slots of the heat map.                            *)
(***************************************************************************)
\* the slots of the present day (e, d) that a pair fills
FilledSlots(e, d) ==
    LET recs == Ascending(e, d)
    IN IF recs[1].in_time_minutes < 660
       THEN {"morn_in", "morn_out"}
            \cup (IF Len(recs) >= 2 THEN {"aft_in", "aft_out"} ELSE {})
       ELSE {"aft_in", "aft_out"}

\* C25: the heat map holds one entry per employee and observed date (weekend
\* dates included); the four slots of an entry are absent ('N/A' on
\* '#D3D3D3') iff the employee has no pair on that date; on a present day no
\* slot is absent, and a slot that no pair fills holds the empty text on the
\* empty colour '#F8F8F8' (on the multiple punches colour when the day has
\* more than two pairs)
C25_OneEntryPerDate ==
    HeatmapDone =>
        \A e \in DOMAIN punch_data :
            /\ Cardinality(DOMAIN punch_data[e]) = Cardinality(ObservedDates)
            /\ DOMAIN color_data[e] = DOMAIN punch_data[e]
            /\ \A d \in ObservedDates :
                   LET punch == punch_data[e][DayKey(d)]
                       color == color_data[e][DayKey(d)]
                   IN IF RecordsOn(e, d) = {}
                      THEN /\ punch = UniformSlots(NA)
                           /\ color = UniformSlots("#D3D3D3")
                      ELSE /\ \A s \in SlotNames :
                                  punch[s] # NA /\ color[s] # "#D3D3D3"
                           /\ \A s \in SlotNames \ FilledSlots(e, d) :
                                  /\ punch[s] = <<>>
                                  /\ color[s] = IF Cardinality(RecordsOn(e, d)) > 2
                                                THEN "#FFB6C1" ELSE "#F8F8F8"


(***************************************************************************)
(* The total hours of a day.                                               *)
(***************************************************************************)
\* what the pair Records[k] adds to the total of its day
Contribution(k) ==
    LET diff == Records[k].out_time_minutes - Records[k].in_time_minutes
    IN IF diff < 0 THEN diff + 1440 ELSE diff

RECURSIVE ContributionSum(_)
ContributionSum(ks) ==
    IF ks = {} THEN 0
    ELSE LET k == CHOOSE x \in ks : TRUE
         IN Contribution(k) + ContributionSum(ks \ {k})

\* the minutes that the stored hours:minutes text stands for
StoredMinutes(e, d) ==
    LET total == total_hours_data[e][DayKey(d)] IN total[1] * 60 + total[2]

\* C26: the total of a present day is the sum over all of the day's pairs,
\* placed in a slot or not, of out - in, plus 1440 for a pair with out < in;
\* each pair adds a value in 0..1439, the total is never negative, and an
\* absent day has total 0
C26_TotalMinutes ==
    HeatmapDone =>
        \A e \in DOMAIN total_hours_data : \A d \in ObservedDates :
            LET ks == RecordsOn(e, d)
            IN IF ks = {}
               THEN total_hours_data[e][DayKey(d)] = <<0, 0>>
               ELSE /\ StoredMinutes(e, d) = ContributionSum(ks)
                    /\ \A k \in ks : Contribution(k) \in 0..1439
                    /\ StoredMinutes(e, d) >= 0


(***************************************************************************)
(* The two paths on a day of two pairs.                                    *)
(***************************************************************************)
\* the slots when the first pair is the morning pair and the second the
\* afternoon pair
PositionalSlots(recs) ==
    [morn_in |-> recs[1].in_time_str, morn_out |-> recs[1].out_time_str,
     aft_in |-> recs[2].in_time_str, aft_out |-> recs[2].out_time_str]

\* the timing anomalies of date d when the first pair is judged against 8:00
\* and 12:00 and the second against 12:30 and 4:00 / 4:30
PositionalAnomalies(anomalies, recs, d) ==
    /\ (OfType(anomalies, "late_arrival", d) # {})
           <=> (recs[1].in_time_minutes - 480 > 7)
    /\ (OfType(anomalies, "irregular_lunch_departure", d) # {})
           <=> (Dist(recs[1].out_time_minutes, 720) > 7)
    /\ (OfType(anomalies, "late_lunch_return", d) # {})
           <=> (recs[2].in_time_minutes - 750 > 7)
    /\ (OfType(anomalies, "irregular_end_time", d) # {})
           <=> (EndDist(recs[2].out_time_minutes) > 7)

\* C27: on a day of exactly two pairs the anomaly path always judges the
\* first pair as the morning pair and the second as the afternoon pair; the
\* slot path gives the pairs the same roles iff the first in-time is < 660,
\* and otherwise puts the first pair in the afternoon slots and the second
\* pair in no slot
C27_PathsAgreeIffMorning ==
    HeatmapDone =>
        \A ed \in PresentDays :
            LET recs == Ascending(ed[1], ed[2])
                punch == punch_data[ed[1]][DayKey(ed[2])]
            IN Len(recs) = 2 =>
                   /\ \A i \in PeriodsWith(ed[2]) :
                          PositionalAnomalies(ResultAt(ed[1], i).anomalies, recs, ed[2])
                   /\ (punch = PositionalSlots(recs)) <=> (recs[1].in_time_minutes < 660)
                   /\ recs[1].in_time_minutes >= 660 =>
                          punch = [morn_in |-> <<>>, morn_out |-> <<>>,
                                   aft_in |-> recs[1].in_time_str,
                                   aft_out |-> recs[1].out_time_str]

\* a two-pair day that starts at 11:00 AM: the first pair is in the afternoon
\* slots and on time for neither the morning nor the lunch departure
C27_Witness ==
    /\ HeatmapDone
    /\ \E ed \in PresentDays :
           LET recs == Ascending(ed[1], ed[2])
               punch == punch_data[ed[1]][DayKey(ed[2])]
           IN /\ Len(recs) = 2
              /\ recs[1].in_time_minutes = 660
              /\ recs[2].in_time_minutes = 750
              /\ punch.morn_in = <<>>
              /\ punch.aft_in = recs[1].in_time_str
              /\ \E i \in PeriodsWith(ed[2]) :
                     /\ OfType(ResultAt(ed[1], i).anomalies, "late_arrival", ed[2]) # {}
                     /\ OfType(ResultAt(ed[1], i).anomalies,
                               "irregular_lunch_departure", ed[2]) # {}
                     /\ OfType(ResultAt(ed[1], i).anomalies,
                               "late_lunch_return", ed[2]) = {}


(***************************************************************************)
(* The keys of the stored results.                                         *)
(***************************************************************************)
\* C28: two distinct periods of one run never share a key of
\* analysis_results[employee], so after the analysis every employee has as
\* many stored results as there are periods
C28_OneResultPerPeriod ==
    AnalysisDone =>
        /\ \A i, j \in 1..Len(two_week_periods) :
               i # j => two_week_periods[i].label # two_week_periods[j].label
        /\ \A e \in DOMAIN analysis_results :
               Cardinality(DOMAIN analysis_results[e]) = Len(two_week_periods)


(***************************************************************************)
(* The counters of a result against its anomalies.                         *)
(***************************************************************************)
MissedDayCount(anomalies) ==
    Cardinality({k \in 1..Len(anomalies) : anomalies[k].type = "missed_day"})

\* C29: in every stored result missed_days is the number of its missed_day
\* anomalies, missed_days is not negative and worked_days is at most
\* total_days, also when the employee punched on a Saturday or Sunday of the
\* period
C29_CountersMatchAnomalies ==
    \A ei \in Stored :
        LET r == ResultAt(ei[1], ei[2])
        IN /\ r.missed_days = MissedDayCount(r.anomalies)
           /\ 0 <= r.missed_days
           /\ r.worked_days <= r.total_days


(***************************************************************************)
(* An employee's outcome against the records of the other employees.       *)
(***************************************************************************)
\* the rows of the file that name employee e
OwnRows(e) == SelectSeq(data[1], LAMBDA row : row.DisplayAs = e)
OwnRecords(e) == ProcessRows(<<>>, OwnRows(e))

\* the periods, the results and the offender status of e in a run on e's
\* own rows alone
OwnOutcome(e) ==
    LET periods == CreatePeriods(OwnRecords(e))
        results == [i \in 1..Len(periods) |->
                       analyze_employee_period(OwnRecords(e), e, periods[i])]
        stored == [l \in {periods[i].label : i \in 1..Len(periods)} |->
                      results[MaxOf({i \in 1..Len(periods) : periods[i].label = l})]]
    IN [periods |-> periods,
        results |-> results,
        offender |-> IsSystematicOffender(stored)]

IsListedOffender(e) ==
    \E k \in 1..Len(systematic_offenders) : systematic_offenders[k].employee = e

\* C30 as stated: a run on the whole file gives employee e the periods, the
\* results and the offender status of a run on e's own rows alone
C30_Original ==
    pc = "done" =>
        \A e \in Range(employees) :
            /\ OwnOutcome(e).periods = two_week_periods
            /\ OwnOutcome(e).results =
                   [i \in 1..Len(two_week_periods) |-> ResultAt(e, i)]
            /\ OwnOutcome(e).offender = IsListedOffender(e)

\* C30: the stored result of an employee for a period is the one computed
\* from the employee's own rows and that period alone, whatever the rows of
\* the other employees
C30_ResultFromOwnRecords ==
    \A ei \in Stored :
        ResultAt(ei[1], ei[2]) =
            analyze_employee_period(OwnRecords(ei[1]), ei[1], two_week_periods[ei[2]])

\* two employees with a punch each on the same date, both analysed
C30_Witness ==
    /\ pc = "done"
    /\ Len(employees) = 2
    /\ \E d \in ObservedDates : RecordsOn(1, d) # {} /\ RecordsOn(2, d) # {}
    /\ \A e \in Range(employees) : \A i \in 1..Len(two_week_periods) :
           <<e, i>> \in Stored
    /\ ResultAt(1, 1).worked_days = 1
    /\ ResultAt(2, 1).worked_days = 1

====
